---- MODULE Spec2Model ----
(***************************************************************************)
(* Room-scoped connection registry and message relay of the chat server    *)
(* (server/websocket.js, server/db.js).  Every inbound frame starts an     *)
(* async handler; a handler runs synchronously up to an await on the       *)
(* store and is resumed later, so the handlers of all connections (and of  *)
(* one connection) interleave at the store calls.                          *)
(***************************************************************************)
EXTENDS Integers, Sequences, FiniteSets, TLC

\* ---------------------------------------------------------------- bounds
\* Inbound frames the server receives in a run of the relay (Spec).
MaxFrames == 2
\* Inbound frames in a run of the relay under RaceSpec.
RaceFrames == 3
\* Inbound frames in a run of the liveness monitor (MonitorSpec).
MonitorFrames == 1
\* Largest value of the clock (Date.now()); the clock starts at 1.
MaxTime == 2
\* Inbound frames in a run of room switches (SwitchSpec).
SwitchFrames == 3
\* Inbound frames in a run of the fan-out to terminated members (FanoutSpec).
FanoutFrames == 3
\* Handlers suspended at a store call at the same time under FanoutSpec.
FanoutPending == 1
\* Inbound frames in a run over all frame inputs (InputSpec).
InputFrames == 2
\* Inbound frames in a run with server restarts (RestartSpec).
RestartFrames == 2
\* Requests in a run of the polling API until its buffer overflows (BufferSpec).
BufferFrames == 101
\* Join announcements the buffer holds at a time under BufferSpec.
BufferJoins == 1
\* Requests in a run of the polling API (PollSpec).
PollFrames == 3
\* Inbound frames in a run of frames of every type (DispatchSpec).
DispatchFrames == 3
\* Inbound frames in a run with a store call that never completes (HangSpec).
HangFrames == 4
\* Suspended handlers at a time in that run.
HangPending == 2
\* Inbound frames in a run of chat frames across room changes (CrossSpec).
CrossFrames == 3
\* Suspended handlers at a time in that run.
CrossPending == 2
\* Frames received in a run with one binding per connection (LeaveSpec).
LeaveFrames == 4
\* Suspended handlers at a time in that run.
LeavePending == 2
\* Requests the server receives in a run of the App component (AppSpec).
AppFrames == 6
\* Messages each client sends in that run.
AppSends == 1
\* Frames and requests in a run of messages of every kind (KindSpec).
KindFrames == 3
\* Inbound frames in a run of joins, leaves and disconnects (RegistrySpec).
RegistryFrames == 2
\* Requests in a run that fills the store beyond a page (HistorySpec).
HistoryFrames == 101
\* Inbound frames and requests in a run of history requests (PageSpec).
PageFrames == 4
\* Handlers suspended at a store call at the same time under PageSpec.
PagePending == 1
\* Largest page size the pagination is checked with.
PageSizes == 2
\* Inbound frames and requests in a run of both channels (MirrorSpec).
MirrorFrames == 2

\* ------------------------------------------------------- program constants
\* getHistory(roomId, 1, 50) in handleJoin
HistoryPage == 1
HistorySize == 50
\* const MAX_MESSAGES = 100
MAX_MESSAGES == 100
\* GET /history: pageSize > 100 is rejected
MaxPageSize == 100

\* ------------------------------------------------------------ input sets
NULL == "null"
Conns == {"A", "B"}
RoomIds == {"default_room", "r1"}
UserIds == {"u1", "u2"}
Contents == {"hi"}
ChatTypes == {"text", "video"}

VARIABLES
    readyState,  \* ws.readyState of each connection: NONE before it connects
    isAlive,     \* ws.isAlive: "undef" until the heartbeat first writes it
    clients,     \* the clients Map: present = has(ws); roomId/userId = the info object
    rooms,       \* the rooms Map: a function from the room ids it holds to member sets
    store,       \* the messages table, in insertion order (id = position)
    handlers,    \* the async handlers suspended at a store call
    inbox,       \* the frames ws.send() delivered to each connection, in order
    frames,      \* number of inbound frames received so far
    now,         \* Date.now()
    probe,       \* the client's answer to the heartbeat: none (never pinged),
                 \* sent (ping unanswered), answered, missed1 / missed2 (one /
                 \* two full intervals ended with the ping unanswered)
    recentMessages,  \* the recentMessages array of the HTTP polling API
    polled,      \* the last GET /api/messages request and its response
    history,     \* the last response to GET /api/history or GET /history
    app          \* the state of the App component of one polling client and
                 \* its requests under way

\* The state of the HTTP polling API.
poll == <<recentMessages, polled, history, app>>

vars == <<readyState, isAlive, clients, rooms, store, handlers, inbox, frames,
          now, probe, poll>>

\* --------------------------------------------------------------- messages
\* A message object; mid labels the object (the number of the frame that
\* created it, 0 for a disconnect, -1 for the schema's sample row), so that
\* two messages with equal fields are still told apart.
Msg(mid, type, roomId, senderId, timestamp, content) ==
    [mid |-> mid, type |-> type, roomId |-> roomId, senderId |-> senderId,
     timestamp |-> timestamp, content |-> content]

NoMsg == Msg(0, "none", NULL, NULL, 0, NULL)

\* A frame sent to a client.
Frame(type, roomId, senderId, timestamp, content, mid, messages) ==
    [type |-> type, roomId |-> roomId, senderId |-> senderId,
     timestamp |-> timestamp, content |-> content, mid |-> mid,
     messages |-> messages]

\* Mutant: the frame of a message does not carry its senderId.
MsgFrameNoSender(m) ==
    Frame(m.type, m.roomId, NULL, m.timestamp, m.content, m.mid, <<>>)

MsgFrame(m) ==
    Frame(m.type, m.roomId, m.senderId, m.timestamp, m.content, m.mid, <<>>)

ErrorFrame(text) == Frame("error", NULL, NULL, now, text, 0, <<>>)

JoinedText(userId) == userId \o " joined"
LeftText(userId) == userId \o " left"

\* ------------------------------------------------------------------ store
\* schema.sql: the sample row inserted when the schema is executed.
SampleRow == Msg(-1, "system", "default_room", "system", 1, "welcome")

\* messages table constraints: type CHECK, NOT NULL columns.
RowValid(m) ==
    /\ m.type \in {"text", "audio", "video", "system"}
    /\ m.roomId # NULL
    /\ m.senderId # NULL
    /\ m.content # NULL

RoomRows(st, roomId) == {i \in 1..Len(st) : st[i].roomId = roomId}

\* The orders in which the rows idx of st can be listed by non-increasing
\* timestamp.
RECURSIVE OrderedFrom(_, _)
OrderedFrom(st, idx) ==
    LET stamps == {st[i].timestamp : i \in idx}
        newest == CHOOSE t \in stamps : \A u \in stamps : t >= u
        oldest == CHOOSE t \in stamps : \A u \in stamps : t <= u
        later == {i \in idx : st[i].timestamp > (newest + oldest) \div 2}
    IN IF idx = {} THEN {<<>>}
       ELSE IF newest = oldest
            THEN UNION {{<<i>> \o s : s \in OrderedFrom(st, idx \ {i})} : i \in idx}
            ELSE {s \o t : s \in OrderedFrom(st, later), t \in OrderedFrom(st, idx \ later)}

\* SELECT ... WHERE room_id = ? ORDER BY timestamp DESC: the order of rows
\* with equal timestamps is not determined by the query.
Ordered(st, roomId) == OrderedFrom(st, RoomRows(st, roomId))

\* Mutant: page n starts after n * size rows.
historyOffsetNext(page, size) == page * size

\* const offset = (page - 1) * size
historyOffset(page, size) == (page - 1) * size

\* LIMIT size OFFSET offset over the rows in the order s: a negative OFFSET
\* counts as 0, a negative LIMIT is no limit.
PageOf(st, s, page, size) ==
    LET offset == IF historyOffset(page, size) < 0 THEN 0 ELSE historyOffset(page, size)
        rest == IF Len(s) - offset < 0 THEN 0 ELSE Len(s) - offset
        count == IF size >= 0 /\ size < rest THEN size ELSE rest
    IN [k \in 1..count |-> st[s[k + offset]]]

\* getHistory(roomId, page, size): the pages the query can return
getHistory(st, roomId, page, size) ==
    {PageOf(st, s, page, size) : s \in Ordered(st, roomId)}

\* history.reverse()
Reverse(s) == [k \in 1..Len(s) |-> s[Len(s) + 1 - k]]

\* --------------------------------------------------------------- registry
Members(rms, roomId) == IF roomId \in DOMAIN rms THEN rms[roomId] ELSE {}

\* Mutant: a room is kept when its last member leaves.
leaveRoomRoomsKeepEmpty(rms, ws, roomId) ==
    IF roomId \in DOMAIN rms
    THEN [r \in DOMAIN rms |-> IF r = roomId THEN rms[r] \ {ws} ELSE rms[r]]
    ELSE rms

\* leaveRoom: the rooms Map after it
leaveRoomRooms(rms, ws, roomId) ==
    IF roomId \in DOMAIN rms
    THEN IF rms[roomId] \ {ws} = {}
         THEN [r \in DOMAIN rms \ {roomId} |-> rms[r]]
         ELSE [r \in DOMAIN rms |-> IF r = roomId THEN rms[r] \ {ws} ELSE rms[r]]
    ELSE rms

\* Mutant: leaveRoom leaves the client's roomId as it was.
leaveRoomClientsKept(cl, ws) == cl

\* leaveRoom: the client info after it
leaveRoomClients(cl, ws) ==
    IF cl[ws].present THEN [cl EXCEPT ![ws].roomId = NULL] ELSE cl

\* Mutant: the connection is put in the room only when the room is created.
addToRoomOnlyNew(rms, ws, roomId) ==
    [r \in DOMAIN rms \cup {roomId} |->
        IF r = roomId /\ roomId \notin DOMAIN rms THEN {ws} ELSE rms[r]]

\* rooms.get(roomId).add(ws), creating the room first if it is absent
addToRoom(rms, ws, roomId) ==
    [r \in DOMAIN rms \cup {roomId} |->
        IF r = roomId THEN Members(rms, roomId) \cup {ws} ELSE rms[r]]

\* ws.send(frame): a frame reaches the client only over an open socket
Send(inb, c, frame) ==
    IF readyState[c] = "OPEN" THEN [inb EXCEPT ![c] = Append(@, frame)] ELSE inb

\* Mutant: the exclude argument is ignored.
broadcastToRoomAll(inb, rms, roomId, frame, exclude) ==
    [c \in Conns |->
        IF c \in Members(rms, roomId) /\ readyState[c] = "OPEN"
        THEN Append(inb[c], frame)
        ELSE inb[c]]

\* Mutant: a broadcast sends nothing.
broadcastToRoomNone(inb, rms, roomId, frame, exclude) == inb

\* Mutant: a member whose channel is not open aborts the whole delivery.
broadcastToRoomAbort(inb, rms, roomId, frame, exclude) ==
    [c \in Conns |->
        IF /\ c \in Members(rms, roomId) /\ c # exclude /\ readyState[c] = "OPEN"
           /\ \A d \in Members(rms, roomId) : readyState[d] = "OPEN"
        THEN Append(inb[c], frame)
        ELSE inb[c]]

\* broadcastToRoom(roomId, message, exclude)
broadcastToRoom(inb, rms, roomId, frame, exclude) ==
    [c \in Conns |->
        IF c \in Members(rms, roomId) /\ c # exclude /\ readyState[c] = "OPEN"
        THEN Append(inb[c], frame)
        ELSE inb[c]]

\* Mutant: the error frame is never sent.
sendErrorDropped(inb, ws, text) == inb

\* Mutant: the error frame is sent to every open connection.
sendErrorToAll(inb, ws, text) ==
    [c \in Conns |->
        IF readyState[c] = "OPEN" THEN Append(inb[c], ErrorFrame(text)) ELSE inb[c]]

\* Mutant: the error frame is sent twice.
sendErrorTwice(inb, ws, text) == Send(Send(inb, ws, ErrorFrame(text)), ws, ErrorFrame(text))

\* sendError(ws, error)
sendError(inb, ws, text) == Send(inb, ws, ErrorFrame(text))

\* ------------------------------------------------------------------- Init
Init ==
    /\ readyState = [c \in Conns |-> "NONE"]
    /\ isAlive = [c \in Conns |-> "undef"]
    /\ clients = [c \in Conns |-> [present |-> FALSE, roomId |-> NULL, userId |-> NULL]]
    /\ rooms = [r \in {} |-> {}]
    /\ store = <<SampleRow>>
    /\ handlers = {}
    /\ inbox = [c \in Conns |-> <<>>]
    /\ frames = 0
    /\ now = 1
    /\ probe = [c \in Conns |-> "none"]
    /\ recentMessages = <<>>
    /\ polled = [seq |-> 0, since |-> <<>>, messages |-> <<>>]
    /\ history = [seq |-> 0, status |-> 0, messages |-> <<>>]
    /\ app = [mounted |-> FALSE, joined |-> FALSE, lastTimestamp |-> 0,
              messages |-> <<>>, requests |-> {}]

\* ------------------------------------------------------------- connection
\* wss.on('connection'): register the client, send the welcome frame
Connect(c) ==
    /\ readyState[c] = "NONE"
    /\ readyState' = [readyState EXCEPT ![c] = "OPEN"]
    /\ clients' = [clients EXCEPT ![c] = [present |-> TRUE, roomId |-> NULL, userId |-> NULL]]
    /\ inbox' = [inbox EXCEPT ![c] =
                    Append(@, Frame("system", NULL, NULL, now, "connected", 0, <<>>))]
    /\ UNCHANGED <<isAlive, rooms, store, handlers, frames, now, probe, poll>>

\* A frame can arrive on an open socket.
CanReceive(c) == readyState[c] = "OPEN"

Handler(seq, c, op, pc, roomId, senderId, msg) ==
    [seq |-> seq, conn |-> c, op |-> op, pc |-> pc, roomId |-> roomId,
     senderId |-> senderId, msg |-> msg, hist |-> <<>>]

\* handleJoin up to its first await: validation, implicit leave of the
\* previous room, binding, registration, the joined acknowledgment, and the
\* history query is issued.
RecvJoin(c, roomId, senderId) ==
    /\ CanReceive(c)
    /\ frames' = frames + 1
    /\ IF roomId = NULL \/ senderId = NULL
       THEN /\ inbox' = sendError(inbox, c, "roomId and senderId are required")
            /\ UNCHANGED <<clients, rooms, handlers>>
       ELSE /\ clients' = [clients EXCEPT ![c].roomId = roomId, ![c].userId = senderId]
            /\ rooms' = addToRoom(
                   IF clients[c].roomId # NULL
                   THEN leaveRoomRooms(rooms, c, clients[c].roomId)
                   ELSE rooms, c, roomId)
            /\ inbox' = Send(inbox, c, Frame("joined", roomId, senderId, now, NULL, 0, <<>>))
            /\ handlers' = handlers \cup
                   {Handler(frames + 1, c, "join", "hist_wait", roomId, senderId, NoMsg)}
    /\ UNCHANGED <<readyState, isAlive, store, now, probe, poll>>

\* The store executes the history query of a suspended join (or fails).
DbAll(h) ==
    /\ h \in handlers
    /\ h.pc = "hist_wait"
    /\ \/ \E res \in getHistory(store, h.roomId, HistoryPage, HistorySize) :
             handlers' = (handlers \ {h}) \cup {[h EXCEPT !.pc = "hist_ok", !.hist = res]}
       \/ handlers' = (handlers \ {h}) \cup {[h EXCEPT !.pc = "hist_err"]}
    /\ UNCHANGED <<readyState, isAlive, clients, rooms, store, inbox, frames, now, probe, poll>>

\* handleJoin resumed after getHistory: history payload (if any), presence
\* broadcast to the others, and the insert of the presence message is issued.
JoinResume(h) ==
    /\ h \in handlers
    /\ h.op = "join"
    /\ h.pc \in {"hist_ok", "hist_err"}
    /\ LET joinMessage == Msg(h.seq, "system", h.roomId, "system", now, JoinedText(h.senderId))
           inb == IF h.pc = "hist_ok" /\ Len(h.hist) > 0
                  THEN Send(inbox, h.conn,
                            Frame("history", NULL, NULL, 0, NULL, 0, Reverse(h.hist)))
                  ELSE inbox
       IN /\ inbox' = broadcastToRoom(inb, rooms, h.roomId, MsgFrame(joinMessage), h.conn)
          /\ handlers' = (handlers \ {h}) \cup
                 {[h EXCEPT !.pc = "save_wait", !.msg = joinMessage, !.hist = <<>>]}
    /\ UNCHANGED <<readyState, isAlive, clients, rooms, store, frames, now, probe, poll>>

\* The store executes the insert of a suspended handler (or fails).
DbRun(h) ==
    /\ h \in handlers
    /\ h.pc = "save_wait"
    /\ \/ /\ RowValid(h.msg)
          /\ store' = Append(store, h.msg)
          /\ handlers' = (handlers \ {h}) \cup {[h EXCEPT !.pc = "save_ok"]}
       \/ /\ handlers' = (handlers \ {h}) \cup {[h EXCEPT !.pc = "save_err"]}
          /\ UNCHANGED store
    /\ UNCHANGED <<readyState, isAlive, clients, rooms, inbox, frames, now, probe, poll>>

\* The message handler's catch block: a rejected await ends the handler
\* with an error frame to the sender.
Caught(h) == sendError(inbox, h.conn, "Invalid message format")

\* handleJoin resumed after saveMessage
JoinDone(h) ==
    /\ h \in handlers
    /\ h.op = "join"
    /\ h.pc \in {"save_ok", "save_err"}
    /\ inbox' = IF h.pc = "save_err" THEN Caught(h) ELSE inbox
    /\ handlers' = handlers \ {h}
    /\ UNCHANGED <<readyState, isAlive, clients, rooms, store, frames, now, probe, poll>>

\* handleLeave up to its await: presence broadcast to the others, and the
\* insert of the presence message is issued.  Unbound: nothing happens.
RecvLeave(c) ==
    /\ CanReceive(c)
    /\ frames' = frames + 1
    /\ IF clients[c].roomId # NULL
       THEN LET leaveMessage == Msg(frames + 1, "system", clients[c].roomId, "system",
                                    now, LeftText(clients[c].userId))
            IN /\ inbox' = broadcastToRoom(inbox, rooms, clients[c].roomId,
                                           MsgFrame(leaveMessage), c)
               /\ handlers' = handlers \cup
                      {Handler(frames + 1, c, "leave", "save_wait", NULL, NULL, leaveMessage)}
       ELSE UNCHANGED <<inbox, handlers>>
    /\ UNCHANGED <<readyState, isAlive, clients, rooms, store, now, probe, poll>>

\* handleLeave resumed after saveMessage: leaveRoom(ws, clientInfo.roomId)
\* with the binding as it is now.
LeaveDone(h) ==
    /\ h \in handlers
    /\ h.op = "leave"
    /\ h.pc \in {"save_ok", "save_err"}
    /\ IF h.pc = "save_ok"
       THEN /\ rooms' = leaveRoomRooms(rooms, h.conn, clients[h.conn].roomId)
            /\ clients' = leaveRoomClients(clients, h.conn)
            /\ UNCHANGED inbox
       ELSE /\ inbox' = Caught(h)
            /\ UNCHANGED <<rooms, clients>>
    /\ handlers' = handlers \ {h}
    /\ UNCHANGED <<readyState, isAlive, store, frames, now, probe, poll>>

\* The timestamps a client may put in a chat frame; 0 is an absent one.
ClientStamps == {0, 1}

\* Mutant: the senderId of the frame wins over the bound identity.
suppliedSenderId(userId, senderId) == IF senderId # NULL THEN senderId ELSE userId

\* senderId: clientInfo.userId || message.senderId
normalizedSenderId(userId, senderId) == IF userId # NULL THEN userId ELSE senderId

\* handleChatMessage up to its await: validation, normalisation, and the
\* insert is issued.
RecvChat(c, type, content, senderId, timestamp) ==
    /\ CanReceive(c)
    /\ frames' = frames + 1
    /\ IF clients[c].roomId = NULL
       THEN /\ inbox' = sendError(inbox, c, "Not in a room. Please join a room first.")
            /\ UNCHANGED handlers
       ELSE IF content = NULL
       THEN /\ inbox' = sendError(inbox, c, "Message content is required")
            /\ UNCHANGED handlers
       ELSE LET normalizedMessage ==
                    Msg(frames + 1, type, clients[c].roomId,
                        normalizedSenderId(clients[c].userId, senderId),
                        IF timestamp # 0 THEN timestamp ELSE now,
                        content)
            IN /\ handlers' = handlers \cup
                      {Handler(frames + 1, c, "chat", "save_wait", NULL, NULL, normalizedMessage)}
               /\ UNCHANGED inbox
    /\ UNCHANGED <<readyState, isAlive, clients, rooms, store, now, probe, poll>>

\* handleChatMessage resumed after saveMessage: broadcast to the room the
\* connection is bound to now, the sender included.
ChatDone(h) ==
    /\ h \in handlers
    /\ h.op = "chat"
    /\ h.pc \in {"save_ok", "save_err"}
    /\ inbox' = IF h.pc = "save_ok"
                THEN broadcastToRoom(inbox, rooms, clients[h.conn].roomId, MsgFrame(h.msg), NULL)
                ELSE Caught(h)
    /\ handlers' = handlers \ {h}
    /\ UNCHANGED <<readyState, isAlive, clients, rooms, store, frames, now, probe, poll>>

\* handleSystemMessage up to its await
RecvSystem(c, content) ==
    /\ CanReceive(c)
    /\ frames' = frames + 1
    /\ IF clients[c].roomId = NULL
       THEN UNCHANGED handlers
       ELSE LET systemMessage == Msg(frames + 1, "system", clients[c].roomId, "system",
                                     now, content)
            IN handlers' = handlers \cup
                  {Handler(frames + 1, c, "system", "save_wait", NULL, NULL, systemMessage)}
    /\ UNCHANGED <<readyState, isAlive, clients, rooms, store, inbox, now, probe, poll>>

\* handleSystemMessage resumed after saveMessage
SystemDone(h) ==
    /\ h \in handlers
    /\ h.op = "system"
    /\ h.pc \in {"save_ok", "save_err"}
    /\ inbox' = IF h.pc = "save_ok"
                THEN broadcastToRoom(inbox, rooms, clients[h.conn].roomId, MsgFrame(h.msg), NULL)
                ELSE Caught(h)
    /\ handlers' = handlers \ {h}
    /\ UNCHANGED <<readyState, isAlive, clients, rooms, store, frames, now, probe, poll>>

\* case 'ping': answered directly with a pong
RecvPing(c) ==
    /\ CanReceive(c)
    /\ frames' = frames + 1
    /\ inbox' = Send(inbox, c, Frame("pong", NULL, NULL, now, NULL, 0, <<>>))
    /\ UNCHANGED <<readyState, isAlive, clients, rooms, store, handlers, now, probe, poll>>

\* default: an unknown type is logged and dropped
RecvUnknown(c) ==
    /\ CanReceive(c)
    /\ frames' = frames + 1
    /\ UNCHANGED <<readyState, isAlive, clients, rooms, store, handlers, inbox, now, probe, poll>>

\* JSON.parse throws: the catch block answers with an error frame
RecvMalformed(c) ==
    /\ CanReceive(c)
    /\ frames' = frames + 1
    /\ inbox' = sendError(inbox, c, "Invalid message format")
    /\ UNCHANGED <<readyState, isAlive, clients, rooms, store, handlers, now, probe, poll>>

\* ------------------------------------------------------------- disconnect
\* handleDisconnect(ws): presence broadcast to the others (not persisted),
\* leaveRoom, clients.delete; nothing for a connection not in the table.
handleDisconnect(c) ==
    IF clients[c].present
    THEN IF clients[c].roomId # NULL
         THEN LET leaveMessage == Msg(0, "system", clients[c].roomId, "system", now,
                                      LeftText(clients[c].userId))
              IN /\ inbox' = broadcastToRoom(inbox, rooms, clients[c].roomId,
                                             MsgFrame(leaveMessage), c)
                 /\ rooms' = leaveRoomRooms(rooms, c, clients[c].roomId)
                 /\ clients' = [leaveRoomClients(clients, c) EXCEPT ![c].present = FALSE]
         ELSE /\ clients' = [clients EXCEPT ![c].present = FALSE]
              /\ UNCHANGED <<inbox, rooms>>
    ELSE UNCHANGED <<inbox, rooms, clients>>

\* ws.on('close') for a close the client started
ClientClose(c) ==
    /\ readyState[c] = "OPEN"
    /\ readyState' = [readyState EXCEPT ![c] = "CLOSED"]
    /\ handleDisconnect(c)
    /\ UNCHANGED <<isAlive, store, handlers, frames, now, probe, poll>>

\* ws.on('error'): the socket is being torn down, its close event follows
SocketError(c) ==
    /\ readyState[c] = "OPEN"
    /\ readyState' = [readyState EXCEPT ![c] = "CLOSING"]
    /\ handleDisconnect(c)
    /\ UNCHANGED <<isAlive, store, handlers, frames, now, probe, poll>>

\* ws.on('close') after terminate() or an error
SocketClosed(c) ==
    /\ readyState[c] = "CLOSING"
    /\ readyState' = [readyState EXCEPT ![c] = "CLOSED"]
    /\ handleDisconnect(c)
    /\ UNCHANGED <<isAlive, store, handlers, frames, now, probe, poll>>

\* -------------------------------------------------------------- heartbeat
\* wss.clients: the sockets accepted and not yet closed
wssClients == {c \in Conns : readyState[c] \in {"OPEN", "CLOSING"}}

\* Mutant: the monitor never terminates a connection.
ShouldTerminateNever(alive) == FALSE

\* if (ws.isAlive === false) return ws.terminate()
ShouldTerminate(alive) == alive = "false"

\* The unanswered ping grows one interval older at each heartbeat; a fresh
\* one is outstanding once a ping went out.
ProbeAfter(p, pinged) ==
    CASE p = "sent" -> "missed1"
      [] p = "missed1" -> "missed2"
      [] p = "missed2" -> "missed2"
      [] OTHER -> IF pinged THEN "sent" ELSE p

\* The heartbeatInterval callback, over all of wss.clients
Heartbeat ==
    /\ readyState' = [c \in Conns |->
           IF c \in wssClients /\ ShouldTerminate(isAlive[c]) THEN "CLOSING"
           ELSE readyState[c]]
    /\ isAlive' = [c \in Conns |->
           IF c \in wssClients /\ ~ShouldTerminate(isAlive[c]) THEN "false"
           ELSE isAlive[c]]
    /\ probe' = [c \in Conns |->
           IF c \in wssClients
           THEN ProbeAfter(probe[c],
                           ~ShouldTerminate(isAlive[c]) /\ readyState[c] = "OPEN")
           ELSE probe[c]]
    /\ UNCHANGED <<clients, rooms, store, handlers, inbox, frames, now, poll>>

\* The client answers the outstanding ping.  The server registers no pong
\* listener, so no server state changes.
Pong(c) ==
    /\ readyState[c] = "OPEN"
    /\ probe[c] \in {"sent", "missed1", "missed2"}
    /\ probe' = [probe EXCEPT ![c] = "answered"]
    /\ UNCHANGED <<readyState, isAlive, clients, rooms, store, handlers, inbox, frames, now, poll>>

\* ------------------------------------------------------------ polling API
\* POST /api/send up to its await: validation, the message (room
\* default_room, the server's clock), push on recentMessages with a shift
\* when it grew beyond MAX_MESSAGES, and the insert is issued.  A request
\* without a type gets type text.
PostSend(senderId, content, type) ==
    /\ frames' = frames + 1
    /\ IF senderId = NULL \/ content = NULL
       THEN UNCHANGED <<recentMessages, handlers>>
       ELSE LET message == Msg(frames + 1, IF type = NULL THEN "text" ELSE type,
                               "default_room", senderId, now, content)
                pushed == Append(recentMessages, message)
            IN /\ recentMessages' = IF Len(pushed) > MAX_MESSAGES THEN Tail(pushed)
                                                                 ELSE pushed
               /\ handlers' = handlers \cup
                      {Handler(frames + 1, NULL, "send", "save_wait", NULL, NULL, message)}
    /\ UNCHANGED <<readyState, isAlive, clients, rooms, store, inbox, now, probe, polled,
                   history>>

\* POST /api/send of a client other than the App component
ApiSend(senderId, content, type) == PostSend(senderId, content, type) /\ UNCHANGED app

\* POST /api/join up to its await: validation, the announcement, push on
\* recentMessages, and the insert is issued.
PostJoin(senderId) ==
    /\ frames' = frames + 1
    /\ IF senderId = NULL
       THEN UNCHANGED <<recentMessages, handlers>>
       ELSE LET message == Msg(frames + 1, "system", "default_room", "system", now,
                               JoinedText(senderId))
            IN /\ recentMessages' = Append(recentMessages, message)
               /\ handlers' = handlers \cup
                      {Handler(frames + 1, NULL, "announce", "save_wait", NULL, NULL, message)}
    /\ UNCHANGED <<readyState, isAlive, clients, rooms, store, inbox, now, probe, polled,
                   history>>

\* POST /api/join of a client other than the App component
ApiJoin(senderId) == PostJoin(senderId) /\ UNCHANGED app

\* POST /api/send and POST /api/join resumed after saveMessage: a failed
\* insert is logged, the response is sent either way.
Responded(h) ==
    /\ h \in handlers
    /\ h.op \in {"send", "announce"}
    /\ h.pc \in {"save_ok", "save_err"}
    /\ handlers' = handlers \ {h}
    /\ UNCHANGED <<readyState, isAlive, clients, rooms, store, inbox, frames, now, probe,
                   recentMessages, polled, history>>

\* The response goes to a client other than the App component.
HttpDone(h) == Responded(h) /\ UNCHANGED app

\* The value of the since parameter of GET /api/messages, as a sequence of
\* characters; the empty sequence is an absent parameter.
Queries == {<<>>, <<"0">>, <<"1">>, <<"2">>, <<"-", "1">>, <<"x">>, <<"1", "x">>}

DigitValue(ch) ==
    CASE ch = "0" -> 0 [] ch = "1" -> 1 [] ch = "2" -> 2 [] ch = "3" -> 3
      [] ch = "4" -> 4 [] ch = "5" -> 5 [] ch = "6" -> 6 [] ch = "7" -> 7
      [] ch = "8" -> 8 [] ch = "9" -> 9 [] OTHER -> -1

\* The value of the longest prefix of digits of str, after acc.
RECURSIVE LeadingDigits(_, _)
LeadingDigits(str, acc) ==
    IF str = <<>> \/ DigitValue(Head(str)) < 0 THEN acc
    ELSE LeadingDigits(Tail(str), 10 * acc + DigitValue(Head(str)))

\* parseInt(str): an optional sign and the leading digits; NaN without a
\* leading digit.
parseInt(str) ==
    LET signed == str # <<>> /\ Head(str) \in {"-", "+"}
        body == IF signed THEN Tail(str) ELSE str
    IN IF body = <<>> \/ DigitValue(Head(body)) < 0
       THEN [nan |-> TRUE, val |-> 0]
       ELSE [nan |-> FALSE,
             val |-> IF signed /\ Head(str) = "-" THEN 0 - LeadingDigits(body, 0)
                     ELSE LeadingDigits(body, 0)]

\* Mutant: entries with the timestamp since are returned too.
pollFilterInclusive(buffer, since) ==
    SelectSeq(buffer, LAMBDA m : m.timestamp >= since)

\* recentMessages.filter(m => m.timestamp > since)
pollFilter(buffer, since) ==
    SelectSeq(buffer, LAMBDA m : m.timestamp > since)

\* GET /api/messages: since = parseInt(req.query.since) || 0
GetMessages(query) ==
    /\ frames' = frames + 1
    /\ LET parsed == parseInt(query)
           since == IF parsed.nan THEN 0 ELSE parsed.val
       IN polled' = [seq |-> frames + 1, since |-> query,
                     messages |-> pollFilter(recentMessages, since)]
    /\ UNCHANGED <<readyState, isAlive, clients, rooms, store, handlers, inbox, now, probe,
                   recentMessages, history>>

\* GET /api/messages of a client other than the App component
ApiMessages(query) == GetMessages(query) /\ UNCHANGED app

\* parseInt(value) || fallback
parseIntOr(str, fallback) ==
    IF parseInt(str).nan \/ parseInt(str).val = 0 THEN fallback ELSE parseInt(str).val

\* GET /api/history up to its await: roomId defaults to default_room, page
\* to 1 and size to 50, and the query is issued with them.
GetApiHistory(roomId, page, size) ==
    /\ frames' = frames + 1
    /\ handlers' = handlers \cup
          {Handler(frames + 1, NULL, "api_history", "page_wait",
                   IF roomId = NULL THEN "default_room" ELSE roomId, NULL,
                   [page |-> parseIntOr(page, 1), size |-> parseIntOr(size, 50)])}
    /\ UNCHANGED <<readyState, isAlive, clients, rooms, store, inbox, now, probe,
                   recentMessages, polled, history>>

\* GET /api/history of a client other than the App component
ApiHistory(roomId, page, size) == GetApiHistory(roomId, page, size) /\ UNCHANGED app

\* GET /history up to its await: roomId is required, page (default 1) must
\* be a number >= 1 and size (default 20) a number in 1..100, else the
\* request is answered with status 400.
History(roomId, page, size) ==
    /\ frames' = frames + 1
    /\ LET pageNum == IF page = <<>> THEN [nan |-> FALSE, val |-> 1] ELSE parseInt(page)
           pageSize == IF size = <<>> THEN [nan |-> FALSE, val |-> 20] ELSE parseInt(size)
       IN IF \/ roomId = NULL
             \/ pageNum.nan \/ pageNum.val < 1
             \/ pageSize.nan \/ pageSize.val < 1 \/ pageSize.val > MaxPageSize
          THEN /\ history' = [seq |-> frames + 1, status |-> 400, messages |-> <<>>]
               /\ UNCHANGED handlers
          ELSE /\ handlers' = handlers \cup
                     {Handler(frames + 1, NULL, "history", "page_wait", roomId, NULL,
                              [page |-> pageNum.val, size |-> pageSize.val])}
               /\ UNCHANGED history
    /\ UNCHANGED <<readyState, isAlive, clients, rooms, store, inbox, now, probe,
                   recentMessages, polled, app>>

\* The store executes the query of a suspended history request (or fails).
DbAllPage(h) ==
    /\ h \in handlers
    /\ h.pc = "page_wait"
    /\ \/ \E res \in getHistory(store, h.roomId, h.msg.page, h.msg.size) :
             handlers' = (handlers \ {h}) \cup {[h EXCEPT !.pc = "hist_ok", !.hist = res]}
       \/ handlers' = (handlers \ {h}) \cup {[h EXCEPT !.pc = "hist_err"]}
    /\ UNCHANGED <<readyState, isAlive, clients, rooms, store, inbox, frames, now, probe, poll>>

\* GET /api/history resumed after getHistory: the page in chronological
\* order, or status 500.
ApiHistoryResponded(h) ==
    /\ h \in handlers
    /\ h.op = "api_history"
    /\ h.pc \in {"hist_ok", "hist_err"}
    /\ history' = IF h.pc = "hist_ok"
                  THEN [seq |-> h.seq, status |-> 200, messages |-> Reverse(h.hist)]
                  ELSE [seq |-> h.seq, status |-> 500, messages |-> <<>>]
    /\ handlers' = handlers \ {h}
    /\ UNCHANGED <<readyState, isAlive, clients, rooms, store, inbox, frames, now, probe,
                   recentMessages, polled>>

\* The response goes to a client other than the App component.
ApiHistoryDone(h) == ApiHistoryResponded(h) /\ UNCHANGED app

\* GET /history resumed after getHistory: the page as the store returned
\* it, or status 500.
HistoryDone(h) ==
    /\ h \in handlers
    /\ h.op = "history"
    /\ h.pc \in {"hist_ok", "hist_err"}
    /\ history' = IF h.pc = "hist_ok"
                  THEN [seq |-> h.seq, status |-> 200, messages |-> h.hist]
                  ELSE [seq |-> h.seq, status |-> 500, messages |-> <<>>]
    /\ handlers' = handlers \ {h}
    /\ UNCHANGED <<readyState, isAlive, clients, rooms, store, inbox, frames, now, probe,
                   recentMessages, polled, app>>

\* ---------------------------------------------------------- App component
\* const MY_USER_ID = 'User_' + Math.random()...
MY_USER_ID == "u1"

DigitChar(d) ==
    CASE d = 0 -> "0" [] d = 1 -> "1" [] d = 2 -> "2" [] d = 3 -> "3" [] d = 4 -> "4"
      [] d = 5 -> "5" [] d = 6 -> "6" [] d = 7 -> "7" [] d = 8 -> "8" [] OTHER -> "9"

\* `${n}` for a number n >= 0: its decimal digits
RECURSIVE NumberToString(_)
NumberToString(n) ==
    IF n < 10 THEN <<DigitChar(n)>> ELSE NumberToString(n \div 10) \o <<DigitChar(n % 10)>>

\* An entry of the messages state: a message as shown, and where it came
\* from (its id is 'h_...' from a history page, 'local_...' for a message of
\* handleSend, the server's id from a poll).
Shown(src, m) ==
    [src |-> src, mid |-> m.mid, type |-> m.type, senderId |-> m.senderId,
     timestamp |-> m.timestamp, content |-> m.content]

\* Math.max(...ms.map(m => m.timestamp)) of a non-empty list
MaxTimestamp(ms) ==
    CHOOSE t \in {ms[i].timestamp : i \in DOMAIN ms} :
        \A i \in DOMAIN ms : t >= ms[i].timestamp

\* A request of the component that the server has not received yet.
Request(kind, since, n) == [kind |-> kind, since |-> since, n |-> n]

\* The mount effect: loadHistory(1, false) and the join request are sent.
AppMount ==
    /\ ~app.mounted
    /\ app' = [app EXCEPT !.mounted = TRUE,
                          !.requests = @ \cup {Request("history", 0, 0),
                                               Request("join", 0, 0)}]
    /\ UNCHANGED <<readyState, isAlive, clients, rooms, store, handlers, inbox, frames, now,
                   probe, recentMessages, polled, history>>

\* The server receives the component's GET /api/history?...&page=1&size=20.
AppHistoryRequest ==
    \E req \in app.requests :
        /\ req.kind = "history"
        /\ GetApiHistory("default_room", <<"1">>, <<"2", "0">>)
        /\ app' = [app EXCEPT !.requests = @ \ {req}]

\* loadHistory, not prepending: the cursor after a page was received
historyCursor(last, msgs) == IF Len(msgs) > 0 THEN MaxTimestamp(msgs) ELSE last

\* The response to loadHistory(1, false): the page replaces the list and
\* the cursor becomes its greatest timestamp; a failure changes nothing.
AppHistoryResponse(h) ==
    /\ ApiHistoryResponded(h)
    /\ app' = IF history'.status = 200
              THEN [app EXCEPT
                      !.messages = [i \in DOMAIN history'.messages |->
                                       Shown("history", history'.messages[i])],
                      !.lastTimestamp = historyCursor(@, history'.messages)]
              ELSE app

\* The server receives the component's POST /api/join.
AppJoinRequest ==
    \E req \in app.requests :
        /\ req.kind = "join"
        /\ PostJoin(MY_USER_ID)
        /\ app' = [app EXCEPT !.requests = @ \ {req}]

\* The response to the join: joined, and the cursor becomes Date.now()
\* (lastTimestamp is 0 in the closure of the mount effect).
AppJoinResponse(h) ==
    /\ h.op = "announce"
    /\ h.msg.content = JoinedText(MY_USER_ID)
    /\ Responded(h)
    /\ app' = [app EXCEPT !.joined = TRUE, !.lastTimestamp = now]

\* The interval timer of the poll effect fires: the request carries the
\* cursor of that moment.
AppPoll ==
    /\ app.joined
    /\ app' = [app EXCEPT !.requests = @ \cup {Request("poll", app.lastTimestamp, 0)}]
    /\ UNCHANGED <<readyState, isAlive, clients, rooms, store, handlers, inbox, frames, now,
                   probe, recentMessages, polled, history>>

\* setLastTimestamp(maxTs) when the response holds messages
pollCursor(last, data) == IF Len(data) > 0 THEN MaxTimestamp(data) ELSE last

\* The server answers a poll of the component and the component handles
\* the response: the messages that are not its own chat messages are
\* appended to the list, the cursor becomes the greatest timestamp of the
\* response.
AppPollAnswered ==
    \E req \in app.requests :
        /\ req.kind = "poll"
        /\ GetMessages(NumberToString(req.since))
        /\ LET data == polled'.messages
               newMsgs == SelectSeq(data,
                              LAMBDA m : ~(m.type # "system" /\ m.senderId = MY_USER_ID))
           IN app' = [app EXCEPT
                        !.requests = @ \ {req},
                        !.messages = @ \o [i \in DOMAIN newMsgs |-> Shown("poll", newMsgs[i])],
                        !.lastTimestamp = pollCursor(@, data)]

\* handleSend: the message is shown at once and the request is sent.
AppHandleSend(text) ==
    /\ app.joined
    /\ app' = [app EXCEPT
                 !.messages = Append(@, Shown("local",
                                 Msg(0, "text", NULL, MY_USER_ID, now, text))),
                 !.requests = @ \cup {Request("send", 0, Len(app.messages) + 1)}]
    /\ UNCHANGED <<readyState, isAlive, clients, rooms, store, handlers, inbox, frames, now,
                   probe, recentMessages, polled, history>>

\* The server receives the component's POST /api/send.
AppSendRequest(text) ==
    \E req \in app.requests :
        /\ req.kind = "send"
        /\ PostSend(MY_USER_ID, text, "text")
        /\ app' = [app EXCEPT !.requests = @ \ {req}]

\* The response to handleSend's request:
\* setLastTimestamp(data.message.timestamp)
AppSendResponse(h) ==
    /\ h.op = "send"
    /\ h.msg.senderId = MY_USER_ID
    /\ Responded(h)
    /\ app' = [app EXCEPT !.lastTimestamp = h.msg.timestamp]

\* ---------------------------------------------------------------- restart
\* The server process ends and startServer runs again: the sockets of the
\* old process are gone, rooms, clients and recentMessages are fresh, the
\* handlers of the old process are lost, and initDatabase executes
\* schema.sql, which drops the messages table, creates it and inserts the
\* sample row.
startServer ==
    /\ readyState' = [c \in Conns |->
           IF readyState[c] = "NONE" THEN "NONE" ELSE "CLOSED"]
    /\ clients' = [c \in Conns |-> [present |-> FALSE, roomId |-> NULL, userId |-> NULL]]
    /\ rooms' = [r \in {} |-> {}]
    /\ handlers' = {}
    /\ recentMessages' = <<>>
    /\ store' = <<[SampleRow EXCEPT !.timestamp = now]>>
    /\ UNCHANGED <<isAlive, inbox, frames, now, probe, polled, history, app>>

\* Date.now() grows by one.
Elapse ==
    /\ now' = now + 1
    /\ UNCHANGED <<readyState, isAlive, clients, rooms, store, handlers, inbox, frames, probe, poll>>

\* Time passes.
Tick ==
    /\ now < MaxTime
    /\ now' = now + 1
    /\ UNCHANGED <<readyState, isAlive, clients, rooms, store, handlers, inbox, frames, probe, poll>>

\* ------------------------------------------------------------------- Next
\* The user each connection joins as.
UserOf(c) == IF c = "A" THEN "u1" ELSE "u2"

\* The relay: connections join r1, leave, send text and close, and the
\* store answers (or fails) at any later time.
Next ==
    \/ \E c \in Conns : Connect(c)
    \/ \E c \in Conns : frames < MaxFrames /\ RecvJoin(c, "r1", UserOf(c))
    \/ \E c \in Conns : frames < MaxFrames /\ RecvLeave(c)
    \/ \E c \in Conns, content \in Contents :
          frames < MaxFrames /\ RecvChat(c, "text", content, NULL, 0)
    \/ \E h \in handlers : DbAll(h)
    \/ \E h \in handlers : DbRun(h)
    \/ \E h \in handlers : JoinResume(h)
    \/ \E h \in handlers : JoinDone(h)
    \/ \E h \in handlers : LeaveDone(h)
    \/ \E h \in handlers : ChatDone(h)
    \/ \E c \in Conns : ClientClose(c)

Spec == Init /\ [][Next]_vars

\* The relay again, over runs one frame longer.
RaceNext ==
    \/ \E c \in Conns : Connect(c)
    \/ \E c \in Conns : frames < RaceFrames /\ RecvJoin(c, "r1", UserOf(c))
    \/ \E c \in Conns : frames < RaceFrames /\ RecvLeave(c)
    \/ \E c \in Conns, content \in Contents :
          frames < RaceFrames /\ RecvChat(c, "text", content, NULL, 0)
    \/ \E h \in handlers : DbAll(h)
    \/ \E h \in handlers : DbRun(h)
    \/ \E h \in handlers : JoinResume(h)
    \/ \E h \in handlers : JoinDone(h)
    \/ \E h \in handlers : LeaveDone(h)
    \/ \E h \in handlers : ChatDone(h)
    \/ \E c \in Conns : ClientClose(c)

RaceSpec == Init /\ [][RaceNext]_vars

\* The liveness monitor: connections join r1, answer pings or not, fail
\* and close, while the heartbeat timer fires.
MonitorNext ==
    \/ \E c \in Conns : Connect(c)
    \/ \E c \in Conns : frames < MonitorFrames /\ RecvJoin(c, "r1", UserOf(c))
    \/ \E h \in handlers : DbAll(h)
    \/ \E h \in handlers : DbRun(h)
    \/ \E h \in handlers : JoinResume(h)
    \/ \E h \in handlers : JoinDone(h)
    \/ \E c \in Conns : ClientClose(c)
    \/ \E c \in Conns : SocketError(c)
    \/ \E c \in Conns : SocketClosed(c)
    \/ Heartbeat
    \/ \E c \in Conns : Pong(c)

MonitorSpec == Init /\ [][MonitorNext]_vars

\* Room switches: connections join either room, again and again.
SwitchNext ==
    \/ \E c \in Conns : Connect(c)
    \/ \E c \in Conns, roomId \in RoomIds :
          frames < SwitchFrames /\ RecvJoin(c, roomId, UserOf(c))
    \/ \E h \in handlers : DbAll(h)
    \/ \E h \in handlers : DbRun(h)
    \/ \E h \in handlers : JoinResume(h)
    \/ \E h \in handlers : JoinDone(h)

SwitchSpec == Init /\ [][SwitchNext]_vars

\* Fan-out to a room that holds terminated members: connections join r1
\* and send text while the heartbeat terminates them and their close events
\* arrive later.
FanoutNext ==
    \/ \E c \in Conns : Connect(c)
    \/ \E c \in Conns :
          /\ frames < FanoutFrames /\ Cardinality(handlers) < FanoutPending
          /\ RecvJoin(c, "r1", UserOf(c))
    \/ \E c \in Conns, content \in Contents :
          /\ frames < FanoutFrames /\ Cardinality(handlers) < FanoutPending
          /\ RecvChat(c, "text", content, NULL, 0)
    \/ \E h \in handlers : DbAll(h)
    \/ \E h \in handlers : DbRun(h)
    \/ \E h \in handlers : JoinResume(h)
    \/ \E h \in handlers : JoinDone(h)
    \/ \E h \in handlers : ChatDone(h)
    \/ Heartbeat
    \/ \E c \in Conns : SocketClosed(c)

FanoutSpec == Init /\ [][FanoutNext]_vars

\* Frame inputs: joins and chat frames with every combination of present
\* and missing fields, while time passes.
InputNext ==
    \/ \E c \in Conns : Connect(c)
    \/ \E c \in Conns, roomId \in {"r1", NULL}, senderId \in UserIds \cup {NULL} :
          frames < InputFrames /\ RecvJoin(c, roomId, senderId)
    \/ \E c \in Conns, type \in ChatTypes, content \in Contents \cup {NULL},
          senderId \in UserIds \cup {NULL}, timestamp \in ClientStamps :
          frames < InputFrames /\ RecvChat(c, type, content, senderId, timestamp)
    \/ \E h \in handlers : DbAll(h)
    \/ \E h \in handlers : DbRun(h)
    \/ \E h \in handlers : JoinResume(h)
    \/ \E h \in handlers : JoinDone(h)
    \/ \E h \in handlers : ChatDone(h)
    \/ Tick

InputSpec == Init /\ [][InputNext]_vars

\* The relay across restarts of the server process.
RestartNext ==
    \/ \E c \in Conns : Connect(c)
    \/ \E c \in Conns : frames < RestartFrames /\ RecvJoin(c, "r1", UserOf(c))
    \/ \E h \in handlers : DbAll(h)
    \/ \E h \in handlers : DbRun(h)
    \/ \E h \in handlers : JoinResume(h)
    \/ \E h \in handlers : JoinDone(h)
    \/ startServer

RestartSpec == Init /\ [][RestartNext]_vars

\* The announcements recentMessages holds.
Announcements ==
    {i \in DOMAIN recentMessages : recentMessages[i].type = "system"}

\* The polling API until its buffer overflows: one user sends and announces
\* itself, one request at a time, and the store accepts every insert.
BufferNext ==
    \/ /\ frames < BufferFrames /\ handlers = {}
       /\ ApiSend("u1", "hi", "text")
    \/ /\ frames < BufferFrames /\ handlers = {}
       /\ Cardinality(Announcements) < BufferJoins
       /\ ApiJoin("u1")
    \/ \E h \in handlers : DbRun(h) /\ store' # store
    \/ \E h \in handlers : HttpDone(h)

BufferSpec == Init /\ [][BufferNext]_vars

\* The polling API: sends, announcements and polls with every input, while
\* time passes.
PollNext ==
    \/ \E senderId \in {"u1", NULL}, content \in Contents \cup {NULL},
          type \in {"text", NULL} :
          frames < PollFrames /\ ApiSend(senderId, content, type)
    \/ \E senderId \in {"u1", NULL} : frames < PollFrames /\ ApiJoin(senderId)
    \/ \E query \in Queries : frames < PollFrames /\ ApiMessages(query)
    \/ \E h \in handlers : DbRun(h)
    \/ \E h \in handlers : HttpDone(h)
    \/ Tick

PollSpec == Init /\ [][PollNext]_vars

\* Both channels: connections join default_room and send text over the
\* push channel, while the polling API takes sends and polls.
MirrorNext ==
    \/ \E c \in Conns : Connect(c)
    \/ \E c \in Conns :
          frames < MirrorFrames /\ RecvJoin(c, "default_room", UserOf(c))
    \/ \E c \in Conns, content \in Contents :
          frames < MirrorFrames /\ RecvChat(c, "text", content, NULL, 0)
    \/ frames < MirrorFrames /\ ApiSend("u1", "hi", "text")
    \/ \E query \in {<<>>, <<"1">>} : frames < MirrorFrames /\ ApiMessages(query)
    \/ \E h \in handlers : DbAll(h)
    \/ \E h \in handlers : DbRun(h)
    \/ \E h \in handlers : JoinResume(h)
    \/ \E h \in handlers : JoinDone(h)
    \/ \E h \in handlers : ChatDone(h)
    \/ \E h \in handlers : HttpDone(h)

MirrorSpec == Init /\ [][MirrorNext]_vars

\* The insert of a chat message of connection A never completes.
Hung(h) == h.conn = "A" /\ h.op = "chat"

\* The steps the store and the event loop take for the handlers whose store
\* call is not the one that hangs.
Progress ==
    \E h \in handlers :
        /\ ~Hung(h)
        /\ DbAll(h) \/ DbRun(h) \/ JoinResume(h) \/ JoinDone(h) \/ ChatDone(h)

\* A store call of A hangs.
AHangs == \E h \in handlers : Hung(h) /\ h.pc = "save_wait"

\* The heartbeat timer fires while the store call hangs.
HangHeartbeat == AHangs /\ Heartbeat

\* A store call that never completes: A joins r1 and sends a text frame
\* whose insert hangs; from then on B joins r1, sends text frames and may
\* close its socket, and the heartbeat pings both; every other store call
\* is executed.
HangNext ==
    \/ \E c \in Conns : Connect(c)
    \/ \E c \in Conns :
          /\ frames < HangFrames /\ Cardinality(handlers) < HangPending
          /\ clients[c].roomId = NULL
          /\ c = "B" => AHangs
          /\ RecvJoin(c, "r1", UserOf(c))
    \/ \E c \in Conns, content \in Contents :
          /\ frames < HangFrames /\ Cardinality(handlers) < HangPending
          /\ clients[c].roomId # NULL
          /\ c = "B" => AHangs
          /\ RecvChat(c, "text", content, NULL, 0)
    \/ Progress
    \/ AHangs /\ ClientClose("B")
    \/ \E c \in Conns : SocketClosed(c)
    \/ HangHeartbeat

\* The store completes the calls that do not hang, the event loop runs the
\* continuations that are ready, and the heartbeat timer keeps firing.
HangSpec ==
    Init /\ [][HangNext]_vars /\ WF_vars(Progress) /\ WF_vars(HangHeartbeat)

\* Chat frames across room changes: connections join either room, A sends
\* text frames, and both leave and close while store calls are under way.
CrossNext ==
    \/ \E c \in Conns : Connect(c)
    \/ \E c \in Conns, roomId \in RoomIds :
          /\ frames < CrossFrames /\ Cardinality(handlers) < CrossPending
          /\ RecvJoin(c, roomId, UserOf(c))
    \/ \E content \in Contents :
          /\ frames < CrossFrames /\ Cardinality(handlers) < CrossPending
          /\ RecvChat("A", "text", content, NULL, 0)
    \/ \E c \in Conns :
          /\ frames < CrossFrames /\ Cardinality(handlers) < CrossPending
          /\ RecvLeave(c)
    \/ \E h \in handlers : DbAll(h)
    \/ \E h \in handlers : DbRun(h)
    \/ \E h \in handlers : JoinResume(h)
    \/ \E h \in handlers : JoinDone(h)
    \/ \E h \in handlers : ChatDone(h)
    \/ \E h \in handlers : LeaveDone(h)
    \/ \E c \in Conns : ClientClose(c)

CrossSpec == Init /\ [][CrossNext]_vars

\* The entries of the poll buffer sent by senderId.
SentBy(senderId) == SelectSeq(recentMessages, LAMBDA m : m.senderId = senderId)

\* The App component next to another polling client: the component mounts,
\* joins, polls with one poll under way at a time and sends, while u2
\* posts messages, the store accepts every insert and time passes.
AppNext ==
    \/ AppMount
    \/ frames < AppFrames /\ AppHistoryRequest
    \/ frames < AppFrames /\ AppJoinRequest
    \/ /\ frames < AppFrames
       /\ \A req \in app.requests : req.kind # "poll"
       /\ AppPoll
    \/ frames < AppFrames /\ AppPollAnswered
    \/ \E text \in Contents :
          /\ frames < AppFrames
          /\ Len(SelectSeq(app.messages, LAMBDA m : m.src = "local")) < AppSends
          /\ AppHandleSend(text)
    \/ \E text \in Contents : frames < AppFrames /\ AppSendRequest(text)
    \/ \E content \in Contents :
          /\ frames < AppFrames /\ Len(SentBy("u2")) < AppSends
          /\ ApiSend("u2", content, "text")
    \/ \E h \in handlers : DbAllPage(h)
    \/ \E h \in handlers : DbRun(h) /\ store' # store
    \/ \E h \in handlers : AppHistoryResponse(h)
    \/ \E h \in handlers : AppJoinResponse(h)
    \/ \E h \in handlers : AppSendResponse(h)
    \/ \E h \in handlers : (h.op = "send" /\ h.msg.senderId = "u2") /\ HttpDone(h)
    \/ Tick

AppSpec == Init /\ [][AppNext]_vars

\* Scenario A: connection A joins r1 as u1 and then sends a text frame
\* with content "hi", with any senderId and timestamp of its own in it.
ScenarioNext ==
    \/ Connect("A")
    \/ frames = 0 /\ RecvJoin("A", "r1", "u1")
    \/ \E senderId \in UserIds \cup {NULL}, timestamp \in ClientStamps :
          frames = 1 /\ RecvChat("A", "text", "hi", senderId, timestamp)
    \/ \E h \in handlers : DbAll(h)
    \/ \E h \in handlers : DbRun(h)
    \/ \E h \in handlers : JoinResume(h)
    \/ \E h \in handlers : JoinDone(h)
    \/ \E h \in handlers : ChatDone(h)
    \/ Tick

ScenarioSpec == Init /\ [][ScenarioNext]_vars

\* The message listener and the dispatch of handleMessage: connections
\* join r1 and send unparseable frames, frames of unknown type, pings and
\* system frames.
DispatchNext ==
    \/ \E c \in Conns : Connect(c)
    \/ \E c \in Conns : frames < DispatchFrames /\ RecvJoin(c, "r1", UserOf(c))
    \/ \E c \in Conns : frames < DispatchFrames /\ RecvMalformed(c)
    \/ \E c \in Conns : frames < DispatchFrames /\ RecvUnknown(c)
    \/ \E c \in Conns : frames < DispatchFrames /\ RecvPing(c)
    \/ \E c \in Conns, content \in Contents :
          frames < DispatchFrames /\ RecvSystem(c, content)
    \/ \E h \in handlers : DbAll(h)
    \/ \E h \in handlers : DbRun(h)
    \/ \E h \in handlers : JoinResume(h)
    \/ \E h \in handlers : JoinDone(h)
    \/ \E h \in handlers : SystemDone(h)

DispatchSpec == Init /\ [][DispatchNext]_vars

\* Messages of every kind over both channels: a connection joins
\* default_room and sends chat and system frames, and a polling client
\* posts messages whose type is a supported one, an unsupported one or
\* absent.
KindNext ==
    \/ Connect("A")
    \/ frames < KindFrames /\ RecvJoin("A", "default_room", "u1")
    \/ \E type \in ChatTypes :
          frames < KindFrames /\ RecvChat("A", type, "hi", NULL, 0)
    \/ frames < KindFrames /\ RecvSystem("A", "hi")
    \/ \E type \in {"text", "sticker", NULL} :
          frames < KindFrames /\ ApiSend("u2", "hi", type)
    \/ \E h \in handlers : DbAll(h)
    \/ \E h \in handlers : DbRun(h)
    \/ \E h \in handlers : JoinResume(h)
    \/ \E h \in handlers : JoinDone(h)
    \/ \E h \in handlers : ChatDone(h)
    \/ \E h \in handlers : SystemDone(h)
    \/ \E h \in handlers : HttpDone(h)

KindSpec == Init /\ [][KindNext]_vars

\* The registry: connections join either room, switch, leave, close, fail
\* and are evicted by the heartbeat, in every interleaving with the store.
RegistryNext ==
    \/ \E c \in Conns : Connect(c)
    \/ \E c \in Conns, roomId \in RoomIds :
          frames < RegistryFrames /\ RecvJoin(c, roomId, UserOf(c))
    \/ \E c \in Conns : frames < RegistryFrames /\ RecvLeave(c)
    \/ \E h \in handlers : DbAll(h)
    \/ \E h \in handlers : DbRun(h)
    \/ \E h \in handlers : JoinResume(h)
    \/ \E h \in handlers : JoinDone(h)
    \/ \E h \in handlers : LeaveDone(h)
    \/ \E c \in Conns : ClientClose(c)
    \/ \E c \in Conns : SocketError(c)
    \/ \E c \in Conns : SocketClosed(c)
    \/ Heartbeat

RegistrySpec == Init /\ [][RegistryNext]_vars

\* The store filled beyond a page: one user sends over the polling API, one
\* request per clock value and one at a time, the store accepts every
\* insert, and once the store holds more rows than a page may have, pages
\* of default_room are requested over both endpoints.
HistoryNext ==
    \/ now <= frames /\ Elapse
    \/ /\ frames < HistoryFrames /\ handlers = {} /\ now = frames + 1
       /\ ApiSend("u1", "hi", "text")
    \/ \E size \in {<<>>, <<"1", "0", "1">>, <<"-", "1">>} :
          /\ frames < HistoryFrames /\ handlers = {} /\ Len(store) > MaxPageSize
          /\ ApiHistory(NULL, <<>>, size)
    \/ \E size \in {<<>>, <<"1", "0", "0">>, <<"1", "0", "1">>, <<"-", "1">>} :
          /\ frames < HistoryFrames /\ handlers = {} /\ Len(store) > MaxPageSize
          /\ History("default_room", <<>>, size)
    \/ \E h \in handlers : DbRun(h) /\ store' # store
    \/ \E h \in handlers : DbAllPage(h)
    \/ \E h \in handlers : HttpDone(h)
    \/ \E h \in handlers : HistoryDone(h)
    \/ \E h \in handlers : ApiHistoryDone(h)

HistorySpec == Init /\ [][HistoryNext]_vars

\* History requests: a connection joins r1, the polling API takes sends,
\* time passes, and pages of both rooms are requested over both endpoints.
PageNext ==
    \/ Connect("A")
    \/ /\ frames < PageFrames /\ Cardinality(handlers) < PagePending
       /\ RecvJoin("A", "r1", "u1")
    \/ /\ frames < PageFrames /\ Cardinality(handlers) < PagePending
       /\ ApiSend("u1", "hi", "text")
    \/ \E roomId \in RoomIds, page \in {<<"1">>, <<"2">>} :
          /\ frames < PageFrames /\ Cardinality(handlers) < PagePending
          /\ History(roomId, page, <<"2">>)
    \/ /\ frames < PageFrames /\ Cardinality(handlers) < PagePending
       /\ ApiHistory(NULL, <<>>, <<"2">>)
    \/ \E h \in handlers : DbAll(h)
    \/ \E h \in handlers : DbAllPage(h)
    \/ \E h \in handlers : DbRun(h)
    \/ \E h \in handlers : JoinResume(h)
    \/ \E h \in handlers : JoinDone(h)
    \/ \E h \in handlers : HttpDone(h)
    \/ \E h \in handlers : HistoryDone(h)
    \/ \E h \in handlers : ApiHistoryDone(h)
    \/ Tick

PageSpec == Init /\ [][PageNext]_vars

\* Every event the server handles, with every input.
ServerNext ==
    \/ \E c \in Conns : Connect(c)
    \/ \E c \in Conns, roomId \in RoomIds \cup {NULL}, senderId \in UserIds \cup {NULL} :
          RecvJoin(c, roomId, senderId)
    \/ \E c \in Conns : RecvLeave(c)
    \/ \E c \in Conns, type \in ChatTypes, content \in Contents \cup {NULL},
          senderId \in UserIds \cup {NULL}, timestamp \in ClientStamps :
          RecvChat(c, type, content, senderId, timestamp)
    \/ \E c \in Conns, content \in Contents \cup {NULL} : RecvSystem(c, content)
    \/ \E c \in Conns : RecvPing(c)
    \/ \E c \in Conns : RecvUnknown(c)
    \/ \E c \in Conns : RecvMalformed(c)
    \/ \E h \in handlers : DbAll(h)
    \/ \E h \in handlers : DbRun(h)
    \/ \E h \in handlers : JoinResume(h)
    \/ \E h \in handlers : JoinDone(h)
    \/ \E h \in handlers : LeaveDone(h)
    \/ \E h \in handlers : ChatDone(h)
    \/ \E h \in handlers : SystemDone(h)
    \/ \E c \in Conns : ClientClose(c)
    \/ \E c \in Conns : SocketError(c)
    \/ \E c \in Conns : SocketClosed(c)
    \/ Heartbeat
    \/ \E c \in Conns : Pong(c)
    \/ \E senderId \in UserIds \cup {NULL}, content \in Contents \cup {NULL},
          type \in ChatTypes \cup {NULL} : ApiSend(senderId, content, type)
    \/ \E senderId \in UserIds \cup {NULL} : ApiJoin(senderId)
    \/ \E query \in Queries : ApiMessages(query)
    \/ \E h \in handlers : HttpDone(h)
    \/ \E roomId \in RoomIds \cup {NULL}, page \in Queries, size \in Queries :
          History(roomId, page, size)
    \/ \E roomId \in RoomIds \cup {NULL}, page \in Queries, size \in Queries :
          ApiHistory(roomId, page, size)
    \/ \E h \in handlers : DbAllPage(h)
    \/ \E h \in handlers : HistoryDone(h)
    \/ \E h \in handlers : ApiHistoryDone(h)
    \/ startServer
    \/ Tick
    \/ Elapse

\* ----------------------------------------------------------------- claims
MsgTypes == {"text", "audio", "video", "system"}

\* The frames a step delivered to connection d.
Delivered(d) == SubSeq(inbox'[d], Len(inbox[d]) + 1, Len(inbox'[d]))

\* How many of the frames a step delivered to d carry message m.
Copies(d, m) == Len(SelectSeq(Delivered(d), LAMBDA f : f = MsgFrame(m)))

\* The handler of frame number seq, if it is still running.
Running(hs, seq) == {g \in hs : g.seq = seq}

\* C1: a valid join{roomId, senderId} on an open connection leaves the
\* connection in the member set of roomId, bound to roomId as senderId, when
\* the call of handleJoin returns (at its first await, on the history query).
C1_JoinRegisters ==
    [][\A h \in handlers' \ handlers :
          (h.op = "join" /\ h.pc = "hist_wait")
          => /\ h.conn \in Members(rooms', h.roomId)
             /\ clients'[h.conn].present
             /\ clients'[h.conn].roomId = h.roomId
             /\ clients'[h.conn].userId = h.senderId]_vars

\* A second connection has just joined a room that already had a member.
C1_Witness ==
    \E h \in handlers :
        /\ h.op = "join" /\ h.pc = "hist_wait"
        /\ h.conn \in Members(rooms, h.roomId)
        /\ Cardinality(Members(rooms, h.roomId)) = 2

\* C2: when the handling of a leave{} frame of a connection bound to room r
\* has finished, the connection is not a member of r, it has no binding,
\* and r is not left in the registry with no member.
C2_LeaveReleases ==
    [][\A h \in handlers :
          (h.op = "leave" /\ Running(handlers', h.seq) = {})
          => /\ h.conn \notin Members(rooms', h.msg.roomId)
             /\ clients'[h.conn].roomId = NULL
             /\ (h.msg.roomId \in DOMAIN rooms' => rooms'[h.msg.roomId] # {})]_vars

\* C3: when the handling of a chat frame with content has finished, the
\* message was delivered to every open member of its room, the sender
\* included.
C3_ChatDelivered ==
    [][\A h \in handlers :
          (h.op = "chat" /\ Running(handlers', h.seq) = {})
          => \A d \in Members(rooms, h.msg.roomId) :
                readyState[d] = "OPEN" => Copies(d, h.msg) = 1]_vars

\* C4: a chat message whose insert failed is still broadcast to the open
\* members of the sender's room.
C4_DeliveredDespiteStoreError ==
    [][\A h \in handlers :
          (h.op \in {"chat", "system"} /\ h.pc = "save_err"
             /\ Running(handlers', h.seq) = {})
          => \A d \in Members(rooms, clients[h.conn].roomId) :
                readyState[d] = "OPEN" => Copies(d, h.msg) >= 1]_vars

\* The relay effects a suspended handler has already applied ...
HasApplied(h) ==
    \/ h.op \in {"join", "leave"}
    \/ h.op \in {"chat", "system"} /\ h.pc = "save_ok"

\* ... and those it has yet to apply.
HasPending(h) ==
    \/ h.op = "join" /\ h.pc # "save_ok"
    \/ h.op \in {"leave", "chat", "system"}

\* C7: no effect of a later frame of a connection is applied while an
\* earlier frame of the same connection still has effects to apply.
C7_InOrder ==
    \A h1, h2 \in handlers :
        (h1.conn = h2.conn /\ h1.seq < h2.seq)
        => ~(HasPending(h1) /\ HasApplied(h2))

\* A step delivers presence message m of room r, triggered by connection c,
\* once to every other open member of r and to nobody else.
PresenceToOthers(c, r, m) ==
    \A d \in Conns :
        Copies(d, m) =
            IF d # c /\ d \in Members(rooms, r) /\ readyState[d] = "OPEN" THEN 1 ELSE 0

IsPresence(f, text) == f.type = "system" /\ f.roomId = "r1" /\ f.content = text

LastJoined(c, j) ==
    LET before == {i \in 1..(j - 1) : inbox[c][i].type = "joined"}
    IN IF before = {} THEN 0 ELSE CHOOSE i \in before : \A k \in before : k <= i

\* A live frame of room r that user u did not send: a chat or presence
\* message of somebody else, broadcast to the room.
IsLive(f, r, u) == f.type \in MsgTypes /\ f.roomId = r /\ f.senderId # u

Chronological(ms) ==
    \A a, b \in DOMAIN ms : a < b => ms[a].timestamp <= ms[b].timestamp

\* C9: a joining connection receives the joined acknowledgment, then the
\* history payload in chronological order, with no live frame of the room
\* (sent by another connection) between the two; the "X joined" presence is
\* broadcast only after that.
C9_HistoryBeforeLive ==
    /\ \A c \in Conns : \A j \in DOMAIN inbox[c] :
          inbox[c][j].type = "history"
          => /\ LastJoined(c, j) > 0
             /\ Chronological(inbox[c][j].messages)
             /\ \A k \in (LastJoined(c, j) + 1)..(j - 1) :
                   ~IsLive(inbox[c][k], inbox[c][LastJoined(c, j)].roomId,
                           inbox[c][LastJoined(c, j)].senderId)
    /\ \A h \in handlers :
          (h.op = "join" /\ h.pc \in {"hist_wait", "hist_ok", "hist_err"})
          => \A d \in Conns : \A k \in DOMAIN inbox[d] : inbox[d][k].mid # h.seq

\* The labels of the messages a history payload holds.
HistoryMids(f) == {f.messages[i].mid : i \in DOMAIN f.messages}

\* C10: a chat message of another user that the history payload of a join
\* holds is not also delivered to the joining connection as a live frame
\* after that join.
C10_NoDoubleDelivery ==
    \A c \in Conns : \A j, k \in DOMAIN inbox[c] :
        (/\ inbox[c][j].type = "history"
         /\ k > LastJoined(c, j)
         /\ LastJoined(c, k) = LastJoined(c, j)
         /\ inbox[c][k].type \in {"text", "audio", "video"}
         /\ inbox[c][k].senderId # inbox[c][LastJoined(c, j)].senderId)
        => inbox[c][k].mid \notin HistoryMids(inbox[c][j])

\* C5: the liveness monitor never terminates a connection that answered
\* the last ping it was sent.
C5_ResponsiveNotEvicted ==
    [][\A c \in Conns :
          (readyState[c] = "OPEN" /\ readyState'[c] = "CLOSING" /\ clients'[c].present)
          => probe[c] # "answered"]_vars

\* The connection is in neither the connection table nor a member set.
Removed(c) ==
    /\ ~clients[c].present
    /\ \A r \in DOMAIN rooms : c \notin rooms[r]

\* C6: a connection that left a ping unanswered for two full heartbeat
\* intervals has been terminated by the monitor, and once the close event of
\* a connection has been handled the connection is in neither the connection
\* table nor the member set of any room.
C6_SilentEvicted ==
    \A c \in Conns :
        /\ probe[c] = "missed2" => readyState[c] \in {"CLOSING", "CLOSED"}
        /\ readyState[c] = "CLOSED" => Removed(c)

\* A joined A was silent for two intervals, was terminated and removed.
C6_Witness ==
    /\ probe["A"] = "missed2"
    /\ readyState["A"] = "CLOSED"
    /\ Removed("A")
    /\ \E i \in DOMAIN inbox["A"] : inbox["A"][i].type = "joined"

\* C11: when a connection bound to one room joins a different room, every
\* other open member of the room it leaves is sent the "X left" presence
\* message of that room in the step that rebinds the connection.
C11_ImplicitLeaveAnnounced ==
    [][\A h \in handlers' \ handlers :
          (h.op = "join" /\ h.pc = "hist_wait"
             /\ clients[h.conn].roomId \notin {NULL, h.roomId})
          => \A d \in Members(rooms, clients[h.conn].roomId) \ {h.conn} :
                readyState[d] = "OPEN"
                => \E i \in DOMAIN Delivered(d) :
                      /\ Delivered(d)[i].type = "system"
                      /\ Delivered(d)[i].roomId = clients[h.conn].roomId
                      /\ Delivered(d)[i].content = LeftText(clients[h.conn].userId)]_vars

ErrorOnlyTo(c) ==
    /\ Len(Delivered(c)) = 1
    /\ Delivered(c)[1].type = "error"
    /\ \A d \in Conns \ {c} : inbox'[d] = inbox[d]

\* C13: a join frame whose roomId or senderId is missing or empty is
\* answered with one error frame to its connection and nothing to anybody
\* else; no presence message is broadcast or queued for the store, and the
\* rooms map and the bindings are unchanged.
C13_InvalidJoinRejected ==
    [][\A c \in Conns, roomId \in RoomIds \cup {NULL}, senderId \in UserIds \cup {NULL} :
          ((roomId = NULL \/ senderId = NULL) /\ RecvJoin(c, roomId, senderId))
          => /\ ErrorOnlyTo(c)
             /\ store' = store
             /\ handlers' = handlers
             /\ rooms' = rooms
             /\ clients' = clients]_vars

\* A, bound to r1, sent a join with a missing field: it got the error frame
\* after its joined acknowledgment and is still a member of r1.
C13_Witness ==
    /\ "A" \in Members(rooms, "r1")
    /\ clients["A"].roomId = "r1"
    /\ \E i, j \in DOMAIN inbox["A"] :
          /\ i < j
          /\ inbox["A"][i].type = "joined"
          /\ inbox["A"][j].type = "error"
          /\ inbox["A"][j].content = "roomId and senderId are required"

\* C14: a text/audio/video frame of a connection with no bound room, or
\* with empty content, is answered with one error frame to the sender and
\* nothing to anybody else; nothing is queued for the store, the registry is
\* unchanged and every connection keeps its state.
C14_InvalidChatRejected ==
    [][\A c \in Conns, type \in ChatTypes, content \in Contents \cup {NULL},
          senderId \in UserIds \cup {NULL}, timestamp \in ClientStamps :
          ((clients[c].roomId = NULL \/ content = NULL)
             /\ RecvChat(c, type, content, senderId, timestamp))
          => /\ ErrorOnlyTo(c)
             /\ store' = store
             /\ handlers' = handlers
             /\ rooms' = rooms
             /\ clients' = clients
             /\ readyState' = readyState]_vars

\* A joined r1 and was then refused a chat frame with no content; it is
\* open and still a member of r1.
C14_Witness ==
    /\ readyState["A"] = "OPEN"
    /\ "A" \in Members(rooms, "r1")
    /\ \E i \in DOMAIN inbox["A"] :
          /\ inbox["A"][i].type = "error"
          /\ inbox["A"][i].content = "Message content is required"

\* A was refused a chat frame while it had no bound room.
C14_WitnessUnbound ==
    /\ readyState["A"] = "OPEN"
    /\ clients["A"].roomId = NULL
    /\ \E i \in DOMAIN inbox["A"] :
          /\ inbox["A"][i].type = "error"
          /\ inbox["A"][i].content = "Not in a room. Please join a room first."

\* C15: the message a chat frame creates carries the user identity the
\* connection is bound to when the frame is handled, never the senderId of
\* the frame; every row the store gains and every chat frame delivered is
\* such a message, unaltered.
C15_SenderIdForced ==
    [][/\ \A h \in handlers' \ handlers :
             (h.op = "chat" /\ Running(handlers, h.seq) = {})
             => /\ h.msg.senderId # NULL
                /\ h.msg.senderId = clients[h.conn].userId
       /\ Len(store') > Len(store)
          => \E h \in handlers : store' = Append(store, h.msg)
       /\ \A d \in Conns : \A i \in DOMAIN Delivered(d) :
             Delivered(d)[i].type \in {"text", "audio", "video"}
             => \E h \in handlers :
                   h.op = "chat" /\ Delivered(d)[i] = MsgFrame(h.msg)]_vars

\* A, bound as u2, had a chat message stored and echoed with senderId u2.
C15_Witness ==
    /\ clients["A"].userId = "u2"
    /\ \E i \in DOMAIN inbox["A"] :
          /\ inbox["A"][i].type \in {"text", "video"}
          /\ inbox["A"][i].senderId = "u2"
          /\ \E k \in DOMAIN store :
                store[k].mid = inbox["A"][i].mid /\ store[k].senderId = "u2"

\* C16: the timestamp of the message a chat frame creates is the server's
\* clock at creation, whatever timestamp the frame carries.
C16_ServerTimestamp ==
    [][\A h \in handlers' \ handlers :
          h.op = "chat" => h.msg.timestamp = now]_vars

\* C17: no step, a restart of the server included, removes a stored message:
\* every row of a room is still on the first page getHistory returns for
\* that room after the step.
C17_StoreSurvivesRestart ==
    [][\A r \in RoomIds : \A i \in RoomRows(store, r) :
          \A page \in getHistory(store', r, HistoryPage, HistorySize) :
             \E k \in DOMAIN page : page[k] = store[i]]_vars

\* C18: after any sequence of POST /api/send and POST /api/join requests
\* recentMessages holds at most MAX_MESSAGES entries.
C18_BufferBounded == Len(recentMessages) <= MAX_MESSAGES

\* `${lastTimestamp}`: the decimal digits of a timestamp, as the polling
\* client puts them in the since parameter.
Decimal(n) ==
    CASE n = 0 -> <<"0">> [] n = 1 -> <<"1">> [] n = 2 -> <<"2">>
      [] n = 3 -> <<"3">> [] n = 4 -> <<"4">> [] OTHER -> <<"-", "1">>

\* C19: the response to a poll with since = sinceTs holds exactly the
\* entries of recentMessages with a timestamp greater than sinceTs, in the
\* order of the buffer, and so none with timestamp <= sinceTs.
C19_PollSince ==
    [][\A sinceTs \in -1..(MaxTime + 1) :
          (polled'.seq # polled.seq /\ polled'.since = Decimal(sinceTs))
          => /\ polled'.messages =
                   SelectSeq(recentMessages, LAMBDA m : m.timestamp > sinceTs)
             /\ \A i \in DOMAIN polled'.messages :
                   polled'.messages[i].timestamp > sinceTs]_vars

\* A poll with since = 1 returned the entry of time 2 and left out the
\* entry of time 1 that the buffer holds as well.
C19_Witness ==
    /\ polled.since = <<"1">>
    /\ Len(polled.messages) = 1
    /\ polled.messages[1].timestamp = 2
    /\ \E i \in DOMAIN recentMessages : recentMessages[i].timestamp = 1

\* C20: while recentMessages has not reached its capacity, it holds every
\* chat message the relay broadcast over the push channel.
C20_BroadcastMirrored ==
    \A c \in Conns : \A i \in DOMAIN inbox[c] :
        (inbox[c][i].type \in {"text", "audio", "video"}
           /\ Len(recentMessages) < MAX_MESSAGES)
        => \E k \in DOMAIN recentMessages : recentMessages[k].mid = inbox[c][i].mid

\* The labels of the messages of a page.
PageMids(page) == {page[k].mid : k \in DOMAIN page}

\* C21: every page getHistory can return for (roomId, page, size) holds at
\* most size rows, all of roomId, by non-increasing timestamp, and page 1
\* reversed is in non-decreasing timestamp order; the pages cut from one
\* listing of the room hold the rows after the (page - 1) * size most recent
\* ones, no row is on two pages and every row of the room is on a page.
C21_Pagination ==
    \A roomId \in RoomIds : \A size \in 1..PageSizes :
        /\ \A page \in 1..(Cardinality(RoomRows(store, roomId)) + 1) :
              \A res \in getHistory(store, roomId, page, size) :
                 /\ Len(res) <= size
                 /\ \A k \in DOMAIN res : res[k].roomId = roomId
                 /\ \A a, b \in DOMAIN res :
                       a < b => res[a].timestamp >= res[b].timestamp
                 /\ page = 1 => Chronological(Reverse(res))
        /\ \A s \in Ordered(store, roomId) :
              LET n == Len(s)
                  Page(p) == PageOf(store, s, p, size)
              IN /\ \A p \in 1..(n + 1) : \A k \in DOMAIN Page(p) :
                       Page(p)[k] = store[s[(p - 1) * size + k]]
                 /\ \A p, q \in 1..(n + 1) :
                       p # q => PageMids(Page(p)) \cap PageMids(Page(q)) = {}
                 /\ \A i \in RoomRows(store, roomId) :
                       \E p \in 1..(n + 1) : store[i].mid \in PageMids(Page(p))

\* The store holds three rows or more of default_room, two of them of the
\* same time, and GET /history returned a page of two rows, the more recent
\* one first.
C21_Witness ==
    /\ Cardinality(RoomRows(store, "default_room")) >= 3
    /\ \E i, j \in RoomRows(store, "default_room") :
          i # j /\ store[i].timestamp = store[j].timestamp
    /\ history.status = 200
    /\ Len(history.messages) = 2
    /\ history.messages[1].timestamp > history.messages[2].timestamp

\* C22: a history response of the pull channel never holds more than the
\* maximum page size of 100 messages.
C22_HistoryBounded ==
    history.status = 200 => Len(history.messages) <= MaxPageSize

\* C23: a connection is a member of room r exactly when it is in the
\* connection table with roomId r; it is a member of at most one room; and
\* once its disconnect was handled it is in neither the table nor any room.
C23_RegistryConsistent ==
    \A c \in Conns :
        /\ \A r \in RoomIds :
              c \in Members(rooms, r) <=> (clients[c].present /\ clients[c].roomId = r)
        /\ DOMAIN rooms \subseteq RoomIds
        /\ Cardinality({r \in DOMAIN rooms : c \in rooms[r]}) <= 1
        /\ readyState[c] = "CLOSED" => Removed(c)
        /\ ~clients[c].present => \A r \in DOMAIN rooms : c \notin rooms[r]

\* A and B joined r1 and A's close was handled: B was told that u1 left
\* and is the only member of r1, A is in no table.
C23_Witness ==
    /\ readyState["A"] = "CLOSED"
    /\ \E i \in 1..Len(inbox["A"]) :
          inbox["A"][i].type = "joined" /\ inbox["A"][i].roomId = "r1"
    /\ \E i \in 1..Len(inbox["B"]) : IsPresence(inbox["B"][i], LeftText("u1"))
    /\ ~clients["A"].present
    /\ clients["B"].roomId = "r1"
    /\ DOMAIN rooms = {"r1"}
    /\ rooms["r1"] = {"B"}

\* C24: no room of the registry has an empty member set.
C24_NoEmptyRoom ==
    \A r \in DOMAIN rooms : rooms[r] # {}

\* A switched from default_room, where it was alone, to r1: default_room
\* is gone and r1 holds A.
C24_Witness ==
    /\ \E i \in 1..Len(inbox["A"]) :
          inbox["A"][i].type = "joined" /\ inbox["A"][i].roomId = "default_room"
    /\ clients["A"].roomId = "r1"
    /\ DOMAIN rooms = {"r1"}
    /\ rooms["r1"] = {"A"}

\* A message has one of the four kinds and a content.
WellFormed(m) == m.type \in MsgTypes /\ m.content # NULL

\* C25: every stored row, every entry of the poll buffer and every message
\* delivered to a connection (as a frame of its own or inside a history
\* frame) has a kind among text, audio, video, system and a content.
C25_MessageInvariant ==
    /\ \A i \in 1..Len(store) : WellFormed(store[i])
    /\ \A i \in 1..Len(recentMessages) : WellFormed(recentMessages[i])
    /\ \A c \in Conns : \A i \in 1..Len(inbox[c]) :
          LET f == inbox[c][i]
          IN /\ f.type \notin {"joined", "history", "error", "pong"} => WellFormed(f)
             /\ \A k \in 1..Len(f.messages) : WellFormed(f.messages[k])

\* C26: the step that handles the disconnect of a connection bound to a
\* room delivers the "X left" message to the other open members, issues
\* the insert of that message as a leave frame does, and releases the
\* binding.
C26_DisconnectAsLeave ==
    [][\A c \in Conns :
          (clients[c].present /\ clients[c].roomId # NULL /\ ~clients'[c].present) =>
              LET r == clients[c].roomId
                  text == LeftText(clients[c].userId)
              IN /\ \A d \in Members(rooms, r) \ {c} :
                       readyState[d] = "OPEN" =>
                           \E i \in 1..Len(Delivered(d)) :
                               /\ Delivered(d)[i].type = "system"
                               /\ Delivered(d)[i].roomId = r
                               /\ Delivered(d)[i].content = text
                 /\ c \notin Members(rooms', r)
                 /\ \/ \E h \in handlers' \ handlers :
                          /\ h.pc = "save_wait"
                          /\ h.msg.roomId = r /\ h.msg.content = text
                    \/ \E i \in Len(store) + 1..Len(store') :
                          store'[i].roomId = r /\ store'[i].content = text]_vars

\* C27: a step of a handler whose connection is no longer in the connection
\* table sends no frame, issues no insert and leaves the registry and the
\* store as they are.
C27_UnknownIsNoOp ==
    [][\A h \in handlers :
          (/\ ~clients[h.conn].present
           /\ h.pc \notin {"hist_wait", "save_wait"}
           /\ h \notin handlers') =>
              /\ inbox' = inbox
              /\ \A g \in handlers' \ handlers : g.pc # "save_wait"
              /\ UNCHANGED <<rooms, clients, store>>]_vars

\* C28: an unparseable frame is answered with exactly one error frame, the
\* generic one, to its sender and nothing to anybody else; a frame of
\* unknown type delivers nothing to anybody.  Either way every connection
\* stays in its state and bound as before, and the rooms, the store and
\* the suspended handlers are unchanged.
C28_GarbageIgnored ==
    [][\A c \in Conns :
          /\ RecvMalformed(c) =>
                /\ ErrorOnlyTo(c)
                /\ Delivered(c)[1].content = "Invalid message format"
                /\ UNCHANGED <<readyState, clients, rooms, store, handlers>>
          /\ RecvUnknown(c) =>
                UNCHANGED <<inbox, readyState, clients, rooms, store, handlers>>]_vars

\* A joined r1 and then sent an unparseable frame and a frame of unknown
\* type: it holds one error frame, received after the joined
\* acknowledgment, and no other reply; it is open and a member of r1, and
\* the store holds the sample row and the presence row of the join.
C28_Witness ==
    /\ frames = 3
    /\ handlers = {}
    /\ readyState = [c \in Conns |-> IF c = "A" THEN "OPEN" ELSE "NONE"]
    /\ clients["A"].roomId = "r1"
    /\ rooms = [r \in {"r1"} |-> {"A"}]
    /\ Len(store) = 2
    /\ store[2].content = JoinedText("u1")
    /\ Len(SelectSeq(inbox["A"], LAMBDA f : f.type = "error")) = 1
    /\ Len(SelectSeq(inbox["A"], LAMBDA f : f.type \in {"pong", "history"})) = 0
    /\ \E i, j \in DOMAIN inbox["A"] :
          /\ i < j
          /\ inbox["A"][i].type = "joined"
          /\ inbox["A"][j].type = "error"
          /\ inbox["A"][j].content = "Invalid message format"

\* C29: when the handling of a system frame of a connection bound to r
\* ends, its message, attributed to "system" in room r, is in the store and
\* was delivered once to every open member of r, the sender included; a
\* system frame of a connection with no bound room changes nothing and
\* sends nothing.
C29_SystemRelayed ==
    [][/\ \A h \in handlers :
             (h.op = "system" /\ Running(handlers', h.seq) = {}) =>
                 /\ h.msg.senderId = "system"
                 /\ h.msg.type = "system"
                 /\ \E i \in 1..Len(store') : store'[i] = h.msg
                 /\ \A d \in Members(rooms, h.msg.roomId) :
                       readyState[d] = "OPEN" => Copies(d, h.msg) = 1
       /\ \A c \in Conns, content \in Contents :
             (clients[c].roomId = NULL /\ RecvSystem(c, content)) =>
                 UNCHANGED <<inbox, handlers, store, rooms, clients, readyState>>]_vars

\* Scenario A has run to its end without a failure: both frames were
\* handled, no handler is suspended and A was sent no error frame.
ScenarioARan ==
    /\ frames = 2
    /\ handlers = {}
    /\ Len(SelectSeq(inbox["A"], LAMBDA f : f.type = "error")) = 0

\* A holds exactly one text frame, and it is from u1 with content "hi".
ScenarioAEcho ==
    /\ Len(SelectSeq(inbox["A"], LAMBDA f : f.type = "text")) = 1
    /\ \E i \in DOMAIN inbox["A"] :
          /\ inbox["A"][i].type = "text"
          /\ inbox["A"][i].senderId = "u1"
          /\ inbox["A"][i].content = "hi"
          /\ inbox["A"][i].roomId = "r1"

C31_CursorMonotonic ==
    [][\A req \in app'.requests \ app.requests :
          (req.kind = "poll" /\ polled.seq # 0) =>
              req.since >= parseInt(polled.since).val]_vars

\* C35: the component's list never holds two entries, both taken from poll
\* responses, for one message of another sender.
C35_ShownOnce ==
    \A i, j \in DOMAIN app.messages :
        (/\ i < j
         /\ app.messages[i].src = "poll"
         /\ app.messages[j].src = "poll"
         /\ app.messages[i].senderId # MY_USER_ID) =>
            app.messages[i].mid # app.messages[j].mid

\* C32: while a store call of A hangs, (1) the handler of every frame of
\* B runs to its end, (2) a chat message of B whose insert succeeded is
\* delivered once to every open member of the room, A included, (3) a
\* close of B is handled: B leaves both tables and the open members are
\* told, and (4) the heartbeat keeps running: a connection it has marked
\* is terminated or closed.
C32_HangIsLocal ==
    /\ \A n \in 1..(HangFrames + 1) :
          (AHangs /\ \E h \in handlers : h.seq = n /\ h.conn = "B")
              ~> (Running(handlers, n) = {})
    /\ [][\A h \in handlers :
            (/\ AHangs /\ h.conn = "B" /\ h.op = "chat" /\ h.pc = "save_ok"
             /\ Running(handlers', h.seq) = {}) =>
                \A d \in Members(rooms, clients[h.conn].roomId) :
                    readyState[d] = "OPEN" => Copies(d, h.msg) = 1]_vars
    /\ [][(AHangs /\ clients["B"].roomId # NULL /\ ClientClose("B")) =>
            /\ ~clients'["B"].present
            /\ \A r \in DOMAIN rooms' : "B" \notin rooms'[r]
            /\ \A d \in Members(rooms, clients["B"].roomId) \ {"B"} :
                  readyState[d] = "OPEN" =>
                      \E i \in 1..Len(Delivered(d)) :
                          Delivered(d)[i].content = LeftText(clients["B"].userId)]_vars
    /\ (AHangs /\ readyState["B"] = "OPEN" /\ isAlive["B"] = "false")
          ~> (readyState["B"] # "OPEN")

\* While the insert of A's chat message hangs, A has received the chat
\* message of u2 and B has left by closing its socket.
C32_Witness ==
    /\ AHangs
    /\ \E i \in DOMAIN inbox["A"] :
          inbox["A"][i].type = "text" /\ inbox["A"][i].senderId = "u2"
    /\ \E i \in DOMAIN inbox["A"] : IsPresence(inbox["A"][i], LeftText("u2"))
    /\ readyState["B"] = "CLOSED"

\* C33: a chat frame is delivered only to connections that are members of
\* the room named in the frame's roomId when it is sent.
C33_ChatStaysInRoom ==
    [][\A c \in Conns : \A i \in 1..Len(Delivered(c)) :
          Delivered(c)[i].type \in {"text", "audio", "video"} =>
              c \in Members(rooms, Delivered(c)[i].roomId)]_vars

\* One binding per connection: each connection joins r1 at most once, A
\* repeats leave frames and disconnects (close, or error followed by close)
\* while the store calls of its handlers are under way.
HasJoined(c) == \E i \in 1..Len(inbox[c]) : inbox[c][i].type = "joined"

LeaveNext ==
    \/ \E c \in Conns : Connect(c)
    \/ \E c \in Conns :
          /\ frames < LeaveFrames /\ Cardinality(handlers) < LeavePending
          /\ ~HasJoined(c)
          /\ RecvJoin(c, "r1", UserOf(c))
    \/ /\ frames < LeaveFrames /\ Cardinality(handlers) < LeavePending
       /\ RecvLeave("A")
    \/ \E h \in handlers : DbAll(h)
    \/ \E h \in handlers : DbRun(h)
    \/ \E h \in handlers : JoinResume(h)
    \/ \E h \in handlers : JoinDone(h)
    \/ \E h \in handlers : LeaveDone(h)
    \/ ClientClose("A")
    \/ SocketError("A")
    \/ SocketClosed("A")

LeaveSpec == Init /\ [][LeaveNext]_vars

\* The "X left" presence frames about userId that connection d received.
LeftSeen(d, userId) ==
    {i \in 1..Len(inbox[d]) :
        inbox[d][i].type = "system" /\ inbox[d][i].content = LeftText(userId)}

\* The "X left" presence rows about userId in the messages table.
LeftStored(userId) ==
    {i \in 1..Len(store) : store[i].content = LeftText(userId)}

\* C34: for A's one binding to r1, the other member receives at most one
\* "u1 left" presence frame and at most one such row is persisted.
C34_OneLeft ==
    /\ Cardinality(LeftSeen("B", "u1")) <= 1
    /\ Cardinality(LeftStored("u1")) <= 1

====
